---- MODULE Spec2Model ----
(***************************************************************************)
(* Market-calendar helpers of gamestonk_terminal/helper_funcs.py:          *)
(*   us_market_holidays, b_is_stock_market_open,                           *)
(*   get_next_stock_market_days, get_last_time_market_was_open.            *)
(* Dates are Python datetime.date values (year, month, day); the text      *)
(* produced by strftime("%Y-%m-%d") is a value of another type, so that    *)
(* Python's == between a str and a date is what it is in Python: False.    *)
(***************************************************************************)
EXTENDS Integers, Sequences, FiniteSets, TLC

(***************************************************************************)
(* Bounds of the model.                                                    *)
(***************************************************************************)
\* years before the first / after the last year of the Good Friday table
\* that inputs are drawn from
YearsBefore == 1
YearsAfter == 1
\* largest n_next_days passed to get_next_stock_market_days
MaxNextDays == 2
\* longest list of years passed to us_market_holidays
MaxYears == 2
\* days before and after the last day of the Good Friday table that the
\* calls made one after another take their dates from
WindowDays == 5

(***************************************************************************)
(* Program constants.                                                      *)
(***************************************************************************)
FirstGoodFridayYear == 2010
LastGoodFridayYear == 2030

InputYears == (FirstGoodFridayYear - YearsBefore)..(LastGoodFridayYear + YearsAfter)

(***************************************************************************)
(* datetime: the proleptic Gregorian calendar of Python's datetime module. *)
(***************************************************************************)
is_leap(y) == y % 4 = 0 /\ (y % 100 # 0 \/ y % 400 = 0)

\* number of days before January 1st of year y
days_before_year(y) ==
  LET p == y - 1 IN p * 365 + p \div 4 - p \div 100 + p \div 400

days_in_month(y, m) ==
  IF m = 2 THEN (IF is_leap(y) THEN 29 ELSE 28)
  ELSE IF m \in {4, 6, 9, 11} THEN 30 ELSE 31

\* number of days in year y before the first day of month m
days_before_month(y, m) ==
  LET cum == <<0, 31, 59, 90, 120, 151, 181, 212, 243, 273, 304, 334>>
  IN cum[m] + (IF m > 2 /\ is_leap(y) THEN 1 ELSE 0)

\* datetime.date(y, m, d)
date(y, m, d) == [type |-> "date", year |-> y, month |-> m, day |-> d]

\* date.toordinal(): 0001-01-01 is day 1
toordinal(dt) ==
  days_before_year(dt.year) + days_before_month(dt.year, dt.month) + dt.day

\* date.fromordinal(n)
fromordinal(n) ==
  LET g == (n * 400) \div 146097 + 1
      y == CHOOSE c \in (g - 1)..(g + 1) :
             days_before_year(c) < n /\ n <= days_before_year(c + 1)
      r == n - days_before_year(y)
      m == CHOOSE c \in 1..12 :
             days_before_month(y, c) < r
             /\ r <= days_before_month(y, c) + days_in_month(y, c)
  IN date(y, m, r - days_before_month(y, m))

\* date.weekday(): Monday is 0 ... Saturday is 5, Sunday is 6
weekday(dt) == (toordinal(dt) + 6) % 7

\* date + timedelta(days)
date_plus_days(dt, days) == fromordinal(toordinal(dt) + days)

\* a datetime: a date and the seconds elapsed of that day (the clock)
datetime(dt, s) == [date |-> dt, sec |-> s]

\* time(hour, minute, second) as seconds of the day
Time(hour, minute, second) == hour * 3600 + minute * 60 + second

\* datetime + timedelta(hours=h): the clock is carried into the date
plus_hours(t, h) ==
  LET total == t.sec + h * 3600
  IN datetime(date_plus_days(t.date, total \div 86400), total % 86400)

\* datetime.replace(hour, minute, second)
replace_clock(t, hour, minute, second) == datetime(t.date, Time(hour, minute, second))

\* the text "%Y-%m-%d" of a date: a str, not a date
ymd_text(y, m, d) == [type |-> "str", year |-> y, month |-> m, day |-> d]

\* datetime.strftime("%Y-%m-%d")
strftime(t) == ymd_text(t.date.year, t.date.month, t.date.day)

\* datetime.strptime(text, "%Y-%m-%d").date(): defined on str values only
strptime_date(text) ==
  IF text.type = "str" THEN date(text.year, text.month, text.day)
  ELSE date(0, 0, 0)

\* Python's `x in list`: some element equals x (a str never equals a date)
py_in(x, list) == \E i \in 1..Len(list) : list[i] = x

(***************************************************************************)
(* The `holidays` package: holidays.US, the public holidays of the United  *)
(* States with their observed days, as a dict from date to name.  A name   *)
(* is a sequence of text pieces, so that `holiday + " (Observed)"` is      *)
(* concatenation.                                                          *)
(***************************************************************************)
Observed == <<" (Observed)">>

holiday(dt, name) == [date |-> dt, name |-> name]

\* the n-th day of the week wd in month m of year y
nth_weekday(y, m, wd, n) ==
  date(y, m, 1 + ((wd - weekday(date(y, m, 1))) % 7) + 7 * (n - 1))

\* the last day of the week wd in month m of year y
last_weekday(y, m, wd) ==
  LET last == days_in_month(y, m)
  IN date(y, m, last - ((weekday(date(y, m, last)) - wd) % 7))

\* a holiday on a fixed date, with the weekday it is observed on when the
\* date falls on a Saturday (the Friday) or a Sunday (the Monday)
fixed_holiday(dt, name) ==
  <<holiday(dt, name)>> \o
  (IF weekday(dt) = 5 THEN <<holiday(date_plus_days(dt, -1), name \o Observed)>>
   ELSE IF weekday(dt) = 6 THEN <<holiday(date_plus_days(dt, 1), name \o Observed)>>
   ELSE <<>>)

\* holidays.US._populate(year)
us_populate(y) ==
  fixed_holiday(date(y, 1, 1), <<"New Year's Day">>)
  \o (IF weekday(date(y, 12, 31)) = 4
      THEN <<holiday(date(y, 12, 31), <<"New Year's Day">> \o Observed)>>
      ELSE <<>>)
  \o <<holiday(nth_weekday(y, 1, 0, 3), <<"Martin Luther King Jr. Day">>)>>
  \o <<holiday(nth_weekday(y, 2, 0, 3), <<"Washington's Birthday">>)>>
  \o <<holiday(last_weekday(y, 5, 0), <<"Memorial Day">>)>>
  \o (IF y >= 2021
      THEN fixed_holiday(date(y, 6, 19), <<"Juneteenth National Independence Day">>)
      ELSE <<>>)
  \o fixed_holiday(date(y, 7, 4), <<"Independence Day">>)
  \o <<holiday(nth_weekday(y, 9, 0, 1), <<"Labor Day">>)>>
  \o <<holiday(nth_weekday(y, 10, 0, 2), <<"Columbus Day">>)>>
  \o fixed_holiday(date(y, 11, 11), <<"Veterans Day">>)
  \o <<holiday(nth_weekday(y, 11, 3, 4), <<"Thanksgiving">>)>>
  \o fixed_holiday(date(y, 12, 25), <<"Christmas Day">>)

\* the elements of a set of years in increasing order
RECURSIVE sorted_years(_)
sorted_years(S) ==
  IF S = {} THEN <<>>
  ELSE LET lo == CHOOSE a \in S : \A b \in S : a <= b
       IN <<lo>> \o sorted_years(S \ {lo})

RECURSIVE populate_all(_)
populate_all(ys) ==
  IF ys = <<>> THEN <<>> ELSE us_populate(Head(ys)) \o populate_all(Tail(ys))

\* a dict keeps one item per key
dict_items(items) ==
  LET keep == {i \in 1..Len(items) : \A j \in 1..(i - 1) : items[j].date # items[i].date}
      F[i \in 0..Len(items)] ==
        IF i = 0 THEN <<>>
        ELSE IF i \in keep THEN Append(F[i - 1], items[i]) ELSE F[i - 1]
  IN F[Len(items)]

\* holidays.US(years=years): the items of the dict, one per date
us_holidays(years) ==
  dict_items(populate_all(sorted_years({years[i] : i \in 1..Len(years)})))

\* list(all_holidays): the keys of the dict
dict_keys(items) == [i \in 1..Len(items) |-> items[i].date]

\* all_holidays[date]
dict_get(items, dt) ==
  items[CHOOSE i \in 1..Len(items) : items[i].date = dt].name

\* `key in holidays.US()`: the key, a date or its "%Y-%m-%d" text, is made a
\* date; the dict fills in the year of the date asked for
us_holidays_contains(key) ==
  LET dt == IF key.type = "str" THEN strptime_date(key) ELSE key
      items == us_populate(dt.year)
  IN \E i \in 1..Len(items) : items[i].date = dt

(***************************************************************************)
(* us_market_holidays(years)                                               *)
(***************************************************************************)
\* the argument: one year (an int) or a list of years
py_int(y) == [type |-> "int", int |-> y, list |-> <<>>]
py_list(l) == [type |-> "list", int |-> 0, list |-> l]

market_holidays ==
  << <<"Martin Luther King Jr. Day">>,
     <<"Washington's Birthday">>,
     <<"Memorial Day">>,
     <<"Independence Day">>,
     <<"Labor Day">>,
     <<"Thanksgiving">>,
     <<"Christmas Day">> >>

\* http://www.maa.clell.de/StarDate/publ_holidays.html
good_fridays ==
  (2010 :> ymd_text(2010, 4, 2)) @@ (2011 :> ymd_text(2011, 4, 22)) @@
  (2012 :> ymd_text(2012, 4, 6)) @@ (2013 :> ymd_text(2013, 3, 29)) @@
  (2014 :> ymd_text(2014, 4, 18)) @@ (2015 :> ymd_text(2015, 4, 3)) @@
  (2016 :> ymd_text(2016, 3, 25)) @@ (2017 :> ymd_text(2017, 4, 14)) @@
  (2018 :> ymd_text(2018, 3, 30)) @@ (2019 :> ymd_text(2019, 4, 19)) @@
  (2020 :> ymd_text(2020, 4, 10)) @@ (2021 :> ymd_text(2021, 4, 2)) @@
  (2022 :> ymd_text(2022, 4, 15)) @@ (2023 :> ymd_text(2023, 4, 7)) @@
  (2024 :> ymd_text(2024, 3, 29)) @@ (2025 :> ymd_text(2025, 4, 18)) @@
  (2026 :> ymd_text(2026, 4, 3)) @@ (2027 :> ymd_text(2027, 3, 26)) @@
  (2028 :> ymd_text(2028, 4, 14)) @@ (2029 :> ymd_text(2029, 3, 30)) @@
  (2030 :> ymd_text(2030, 4, 19))

market_and_observed_holidays ==
  market_holidays \o [i \in 1..Len(market_holidays) |-> market_holidays[i] \o Observed]

\* for date in list(all_holidays): keep the dates whose name is a market holiday
valid_from_all(all_holidays) ==
  LET keys == dict_keys(all_holidays)
      F[i \in 0..Len(keys)] ==
        IF i = 0 THEN <<>>
        ELSE IF py_in(dict_get(all_holidays, keys[i]), market_and_observed_holidays)
             THEN Append(F[i - 1], keys[i])
             ELSE F[i - 1]
  IN F[Len(keys)]

\* new_years without the Saturday exception
RECURSIVE new_years_with_saturday(_)
new_years_with_saturday(years) ==
  IF years = <<>> THEN <<>>
  ELSE LET new_Year == strptime_date(ymd_text(Head(years), 1, 1))
       IN <<new_Year>>
          \o (IF weekday(new_Year) = 6 THEN <<date_plus_days(new_Year, 1)>> ELSE <<>>)
          \o new_years_with_saturday(Tail(years))

\* for year in years: New Year's Day, unless a Saturday; the Monday after a Sunday
RECURSIVE new_years(_)
new_years(years) ==
  IF years = <<>> THEN <<>>
  ELSE LET new_Year == strptime_date(ymd_text(Head(years), 1, 1))
       IN (IF weekday(new_Year) # 5 THEN <<new_Year>> ELSE <<>>)
          \o (IF weekday(new_Year) = 6 THEN <<date_plus_days(new_Year, 1)>> ELSE <<>>)
          \o new_years(Tail(years))

\* good_friday_dates with the table read one year early
good_friday_dates_year_before(years) ==
  [i \in 1..Len(years) |->
     strptime_date(good_fridays[IF years[i] - 1 \in DOMAIN good_fridays
                                THEN years[i] - 1 ELSE years[i]])]

\* for year in years: good_fridays[year]
good_friday_dates(years) == [i \in 1..Len(years) |-> strptime_date(good_fridays[years[i]])]

\* the call returns a list, or raises KeyError at the first year that the
\* table good_fridays has no entry for
returned(v) == [raised |-> "none", value |-> v]
raised(e) == [raised |-> e, value |-> <<>>]

\* us_market_holidays with the years missing from good_fridays passed over
us_market_holidays_skip_missing(arg) ==
  LET years == IF arg.type = "int" THEN <<arg.int>> ELSE arg.list
      known == SelectSeq(years, LAMBDA y : y \in DOMAIN good_fridays)
  IN returned(valid_from_all(us_holidays(years)) \o new_years(years)
              \o good_friday_dates(known))

us_market_holidays(arg) ==
  LET years == IF arg.type = "int" THEN <<arg.int>> ELSE arg.list
      all_holidays == us_holidays(years)
  IN IF \E i \in 1..Len(years) : years[i] \notin DOMAIN good_fridays
     THEN raised("KeyError")
     ELSE returned(valid_from_all(all_holidays) \o new_years(years) \o good_friday_dates(years))

(***************************************************************************)
(* b_is_stock_market_open(): `now` is the clock read, in US/Eastern.       *)
(***************************************************************************)
\* is_weekend with Saturday taken for a working day
is_weekend_sunday_only(dt) == weekday(dt) > 5

is_weekend(dt) == weekday(dt) > 4

market_open_time == Time(9, 30, 0)

\* market_close_time with the closing second cut off
market_close_time_early == Time(15, 59, 59)

market_close_time == Time(16, 0, 0)

\* the value returned (or the exception raised) and the years whose market
\* holidays were looked up on the way
outcome(r, looked) == [raised |-> r.raised, value |-> r.value, lookups |-> looked]

\* b_is_stock_market_open with the holiday check made before the weekend check
b_is_stock_market_open_holiday_first(t) ==
  LET market == us_market_holidays(py_int(t.date.year))
      looked == <<t.date.year>>
  IN IF market.raised # "none" THEN outcome(raised(market.raised), looked)
     ELSE IF py_in(strftime(t), market.value) THEN outcome(returned(FALSE), looked)
     ELSE IF is_weekend(t.date) THEN outcome(returned(FALSE), looked)
     ELSE IF t.sec < market_open_time THEN outcome(returned(FALSE), looked)
     ELSE IF t.sec > market_close_time THEN outcome(returned(FALSE), looked)
     ELSE outcome(returned(TRUE), looked)

b_is_stock_market_open(t) ==
  IF is_weekend(t.date) THEN outcome(returned(FALSE), <<>>)
  ELSE LET market == us_market_holidays(py_int(t.date.year))
           looked == <<t.date.year>>
       IN IF market.raised # "none" THEN outcome(raised(market.raised), looked)
          ELSE IF py_in(strftime(t), market.value) THEN outcome(returned(FALSE), looked)
          ELSE IF t.sec < market_open_time THEN outcome(returned(FALSE), looked)
          ELSE IF t.sec > market_close_time THEN outcome(returned(FALSE), looked)
          ELSE outcome(returned(TRUE), looked)

(***************************************************************************)
(* get_last_time_market_was_open(dt)                                       *)
(***************************************************************************)
\* get_last_time_market_was_open stepping back once, without the recursion
get_last_time_one_step_back(t) ==
  LET t1 == IF is_weekend(t.date) THEN plus_hours(t, -24) ELSE t
      t2 == IF us_holidays_contains(strftime(t1)) THEN plus_hours(t1, -24) ELSE t1
  IN replace_clock(t2, 21, 0, 0)

RECURSIVE get_last_time_market_was_open(_)
get_last_time_market_was_open(t) ==
  LET t1 == IF is_weekend(t.date)
            THEN get_last_time_market_was_open(plus_hours(t, -24))
            ELSE t
      t2 == IF us_holidays_contains(strftime(t1))
            THEN get_last_time_market_was_open(plus_hours(t1, -24))
            ELSE t1
  IN replace_clock(t2, 21, 0, 0)

(***************************************************************************)
(* The inputs of the calls.                                                *)
(***************************************************************************)
InputDates ==
  {fromordinal(n) : n \in toordinal(date(FirstGoodFridayYear - YearsBefore, 1, 1))
                          ..toordinal(date(LastGoodFridayYear + YearsAfter, 12, 31))}

\* the dates the clock of b_is_stock_market_open is read on
NowDates == {d \in InputDates : d.year >= FirstGoodFridayYear}

\* clock values around the opening and the closing time
Clocks ==
  {Time(0, 0, 0), Time(9, 0, 0), Time(9, 29, 59), Time(9, 30, 0), Time(10, 0, 0),
   Time(16, 0, 0), Time(16, 0, 1), Time(16, 30, 0), Time(23, 59, 59)}

\* clock value of the timestamp passed to get_next_stock_market_days
StartClocks == {Time(15, 59, 59)}

\* clock values of the timestamp passed to get_last_time_market_was_open
LastClocks == {Time(0, 0, 0), Time(21, 30, 0)}

\* the inputs of the calls made one after another
WindowDates ==
  {fromordinal(toordinal(date(LastGoodFridayYear, 12, 31)) + k) :
     k \in (0 - WindowDays)..WindowDays}

WindowYears ==
  {py_list(<<2021>>)}
  \cup {py_int(d.year) : d \in WindowDates}
  \cup {py_list(<<d.year>>) : d \in WindowDates}
  \cup {py_list(<<d.year, e.year>>) : d \in WindowDates, e \in WindowDates}

YearLists == UNION {[1..k -> InputYears] : k \in 0..MaxYears}

NoTime == datetime(date(1, 1, 1), 0)

(***************************************************************************)
(* The state: the call in progress or just finished.                       *)
(***************************************************************************)
VARIABLES
  pc,             \* "idle", "loop" (inside get_next_stock_market_days), "returned", "raised"
  fn,             \* the function called
  arg,            \* us_market_holidays: the argument years
  now,            \* b_is_stock_market_open: the clock read;
                  \* get_last_time_market_was_open: the argument dt
  start,          \* get_next_stock_market_days: the caller's timestamp
  n_next_days,    \* get_next_stock_market_days: the argument
  last_stock_day, \* get_next_stock_market_days: the parameter, rebound by the loop
  n_days,
  l_pred_days,
  years,
  holidays,
  lookups,        \* the years us_market_holidays was called for by the function
  ret,            \* the value returned, or the exception raised
  earlier         \* TRUE when a call was made before the present one and what
                  \* it left behind is still there

vars == <<pc, fn, arg, now, start, n_next_days, last_stock_day, n_days,
          l_pred_days, years, holidays, lookups, ret, earlier>>

next_days_locals == <<start, n_next_days, last_stock_day, n_days, l_pred_days, years, holidays>>

Init ==
  /\ pc = "idle"
  /\ fn = "none"
  /\ arg = py_list(<<>>)
  /\ now = NoTime
  /\ start = NoTime
  /\ n_next_days = 0
  /\ last_stock_day = NoTime
  /\ n_days = 0
  /\ l_pred_days = <<>>
  /\ years = <<>>
  /\ holidays = <<>>
  /\ lookups = <<>>
  /\ ret = "none"
  /\ earlier = FALSE

\* a call of a function that runs to its end in one step
Finish(name, out) ==
  /\ fn' = name
  /\ pc' = IF out.raised = "none" THEN "returned" ELSE "raised"
  /\ ret' = IF out.raised = "none" THEN out.value ELSE out.raised
  /\ lookups' = out.lookups

\* us_market_holidays(a)
do_us_market_holidays(a) ==
  /\ pc = "idle"
  /\ arg' = a
  /\ Finish("us_market_holidays", outcome(us_market_holidays(a), <<>>))
  /\ UNCHANGED <<now, next_days_locals, earlier>>

Call_us_market_holidays ==
  /\ pc = "idle"
  /\ \E a \in {py_int(y) : y \in InputYears} \cup {py_list(l) : l \in YearLists} :
       do_us_market_holidays(a)

Call_b_is_stock_market_open ==
  /\ pc = "idle"
  /\ \E d \in NowDates, c \in Clocks :
       /\ now' = datetime(d, c)
       /\ Finish("b_is_stock_market_open", b_is_stock_market_open(datetime(d, c)))
  /\ UNCHANGED <<arg, next_days_locals, earlier>>

\* get_last_time_market_was_open(t)
do_get_last_time_market_was_open(t) ==
  /\ pc = "idle"
  /\ now' = t
  /\ Finish("get_last_time_market_was_open",
            outcome(returned(get_last_time_market_was_open(t)), <<>>))
  /\ UNCHANGED <<arg, next_days_locals, earlier>>

Call_get_last_time_market_was_open ==
  /\ pc = "idle"
  /\ \E d \in InputDates, c \in LastClocks :
       do_get_last_time_market_was_open(datetime(d, c))

(***************************************************************************)
(* get_next_stock_market_days(last_stock_day, n_next_days), one loop       *)
(* iteration per step.                                                     *)
(***************************************************************************)
\* new_locals with the two lists made once and shared by all calls, as
\* default values of parameters would be
new_locals_shared_lists ==
  /\ n_days' = 0
  /\ l_pred_days' = <<>>
  /\ UNCHANGED <<years, holidays>>

\* n_days = 0; l_pred_days = []; years = []; holidays = []
new_locals ==
  /\ n_days' = 0
  /\ l_pred_days' = <<>>
  /\ years' = <<>>
  /\ holidays' = <<>>

\* get_next_stock_market_days(t, n): the parameters bound, the locals made
enter_get_next_stock_market_days(t, n) ==
  /\ pc = "idle"
  /\ start' = t
  /\ last_stock_day' = t
  /\ n_next_days' = n
  /\ fn' = "get_next_stock_market_days"
  /\ pc' = "loop"
  /\ new_locals
  /\ lookups' = <<>>
  /\ UNCHANGED <<arg, now, ret, earlier>>

Call_get_next_stock_market_days ==
  /\ pc = "idle"
  /\ \E d \in InputDates, c \in StartClocks, n \in 0..MaxNextDays :
       enter_get_next_stock_market_days(datetime(d, c), n)

\* loop_condition with the bound included
loop_condition_inclusive == n_days <= n_next_days

\* while n_days < n_next_days
loop_condition == n_days < n_next_days

\* NextDayStep with the weekend check made first, before the year of the
\* candidate is looked at
NextDayStep_weekend_first ==
  /\ pc = "loop"
  /\ loop_condition
  /\ LET day == plus_hours(last_stock_day, 24)
         year == day.date.year
         fetch == ~py_in(year, years)
         market == us_market_holidays(py_int(year))
         cached == IF fetch THEN holidays \o market.value ELSE holidays
     IN /\ last_stock_day' = day
        /\ IF is_weekend(day.date)
           THEN UNCHANGED <<years, lookups, pc, ret, holidays, n_days, l_pred_days>>
           ELSE /\ years' = IF fetch THEN Append(years, year) ELSE years
                /\ lookups' = IF fetch THEN Append(lookups, year) ELSE lookups
                /\ IF fetch /\ market.raised # "none"
                   THEN /\ pc' = "raised"
                        /\ ret' = market.raised
                        /\ UNCHANGED <<holidays, n_days, l_pred_days>>
                   ELSE /\ holidays' = cached
                        /\ UNCHANGED <<pc, ret>>
                        /\ IF py_in(strftime(day), cached)
                           THEN UNCHANGED <<n_days, l_pred_days>>
                           ELSE /\ n_days' = n_days + 1
                                /\ l_pred_days' = Append(l_pred_days, day)
  /\ UNCHANGED <<fn, arg, now, start, n_next_days, earlier>>

\* the body of the loop
NextDayStep ==
  /\ pc = "loop"
  /\ loop_condition
  /\ LET day == plus_hours(last_stock_day, 24)
         year == day.date.year
         fetch == ~py_in(year, years)
         market == us_market_holidays(py_int(year))
         cached == IF fetch THEN holidays \o market.value ELSE holidays
     IN /\ last_stock_day' = day
        /\ years' = IF fetch THEN Append(years, year) ELSE years
        /\ lookups' = IF fetch THEN Append(lookups, year) ELSE lookups
        /\ IF fetch /\ market.raised # "none"
           THEN /\ pc' = "raised"
                /\ ret' = market.raised
                /\ UNCHANGED <<holidays, n_days, l_pred_days>>
           ELSE /\ holidays' = cached
                /\ UNCHANGED <<pc, ret>>
                /\ IF is_weekend(day.date) \/ py_in(strftime(day), cached)
                   THEN UNCHANGED <<n_days, l_pred_days>>
                   ELSE /\ n_days' = n_days + 1
                        /\ l_pred_days' = Append(l_pred_days, day)
  /\ UNCHANGED <<fn, arg, now, start, n_next_days, earlier>>

\* return l_pred_days
Return_get_next_stock_market_days ==
  /\ pc = "loop"
  /\ ~loop_condition
  /\ pc' = "returned"
  /\ ret' = l_pred_days
  /\ UNCHANGED <<fn, arg, now, next_days_locals, lookups, earlier>>

\* the caller takes the result; nothing of the call is kept
Forget ==
  /\ pc \in {"returned", "raised"}
  /\ pc' = "idle"
  /\ fn' = "none"
  /\ arg' = py_list(<<>>)
  /\ now' = NoTime
  /\ start' = NoTime
  /\ n_next_days' = 0
  /\ last_stock_day' = NoTime
  /\ n_days' = 0
  /\ l_pred_days' = <<>>
  /\ years' = <<>>
  /\ holidays' = <<>>
  /\ lookups' = <<>>
  /\ ret' = "none"
  /\ earlier' = FALSE

Next ==
  \/ Call_us_market_holidays
  \/ Call_b_is_stock_market_open
  \/ Call_get_last_time_market_was_open
  \/ Call_get_next_stock_market_days
  \/ NextDayStep
  \/ Return_get_next_stock_market_days
  \/ Forget

Spec == Init /\ [][Next]_vars

(***************************************************************************)
(* get_next_stock_market_days as a function of its arguments: the loop run *)
(* to its end on locals of its own.                                        *)
(***************************************************************************)
RECURSIVE next_days_loop(_)
next_days_loop(l) ==
  IF ~(l.n_days < l.n_next_days) THEN returned(l.l_pred_days)
  ELSE LET day == plus_hours(l.last_stock_day, 24)
           year == day.date.year
           fetch == ~py_in(year, l.years)
           market == us_market_holidays(py_int(year))
           cached == IF fetch THEN l.holidays \o market.value ELSE l.holidays
           skip == is_weekend(day.date) \/ py_in(strftime(day), cached)
       IN IF fetch /\ market.raised # "none" THEN raised(market.raised)
          ELSE next_days_loop(
                 [last_stock_day |-> day,
                  n_next_days |-> l.n_next_days,
                  n_days |-> IF skip THEN l.n_days ELSE l.n_days + 1,
                  l_pred_days |-> IF skip THEN l.l_pred_days
                                  ELSE Append(l.l_pred_days, day),
                  years |-> IF fetch THEN Append(l.years, year) ELSE l.years,
                  holidays |-> cached])

get_next_stock_market_days(t, n) ==
  next_days_loop([last_stock_day |-> t, n_next_days |-> n, n_days |-> 0,
                  l_pred_days |-> <<>>, years |-> <<>>, holidays |-> <<>>])

(***************************************************************************)
(* Calls made one after another.  The locals of get_next_stock_market_days *)
(* are left as the call that ended left them, so that a call that read     *)
(* them before writing them would see what an earlier call did.            *)
(***************************************************************************)
Again_us_market_holidays ==
  /\ pc = "idle"
  /\ \E a \in WindowYears : do_us_market_holidays(a)

Again_get_last_time_market_was_open ==
  /\ pc = "idle"
  /\ \E d \in WindowDates, c \in LastClocks :
       do_get_last_time_market_was_open(datetime(d, c))

Again_get_next_stock_market_days ==
  /\ pc = "idle"
  /\ \E d \in WindowDates, c \in StartClocks, n \in 0..MaxNextDays :
       enter_get_next_stock_market_days(datetime(d, c), n)

\* the caller takes the result and goes on to its next call
Leave ==
  /\ pc \in {"returned", "raised"}
  /\ pc' = "idle"
  /\ fn' = "none"
  /\ arg' = py_list(<<>>)
  /\ now' = NoTime
  /\ start' = NoTime
  /\ n_next_days' = 0
  /\ lookups' = <<>>
  /\ ret' = "none"
  /\ earlier' = TRUE
  /\ UNCHANGED <<last_stock_day, n_days, l_pred_days, years, holidays>>

NextAgain ==
  \/ Again_us_market_holidays
  \/ Again_get_last_time_market_was_open
  \/ Again_get_next_stock_market_days
  \/ NextDayStep
  \/ Return_get_next_stock_market_days
  \/ Leave

SpecAgain == Init /\ [][NextAgain]_vars

(***************************************************************************)
(* Properties.                                                             *)
(***************************************************************************)
in_table(y) == y \in FirstGoodFridayYear..LastGoodFridayYear

ordinal(t) == toordinal(t.date)

\* dt is one of the dates us_market_holidays returns for the year of dt
listed_holiday(dt) ==
  LET market == us_market_holidays(py_int(dt.year))
  IN market.raised = "none" /\ py_in(dt, market.value)

\* C1: no timestamp returned by get_next_stock_market_days falls on a date
\* that us_market_holidays lists for the year of that timestamp.
C1_NoHolidayReturned ==
  (fn = "get_next_stock_market_days" /\ pc = "returned")
    => \A i \in 1..Len(ret) : ~listed_holiday(ret[i].date)

\* C2: b_is_stock_market_open returns False, whatever the time of day, when
\* the date is one of the dates us_market_holidays lists for the year.
C2_ClosedOnHolidays ==
  (fn = "b_is_stock_market_open" /\ pc = "returned" /\ listed_holiday(now.date))
    => ret = FALSE

\* C3: with all visited years in 2010..2030, get_next_stock_market_days
\* returns exactly n timestamps, strictly increasing, each start + k*24h for
\* some k >= 1, none on a Saturday or Sunday.
C3_NextDaysShape ==
  fn = "get_next_stock_market_days" =>
    /\ pc = "raised" => \E i \in 1..Len(years) : ~in_table(years[i])
    /\ pc = "returned" =>
         /\ Len(ret) = n_next_days
         /\ \A i \in 1..Len(ret) :
              LET k == ordinal(ret[i]) - ordinal(start)
              IN /\ k >= 1
                 /\ ret[i] = plus_hours(start, 24 * k)
                 /\ weekday(ret[i].date) \notin {5, 6}
         /\ \A i \in 1..(Len(ret) - 1) :
              \/ ordinal(ret[i]) < ordinal(ret[i + 1])
              \/ ordinal(ret[i]) = ordinal(ret[i + 1]) /\ ret[i].sec < ret[i + 1].sec

C3_Witness ==
  /\ fn = "get_next_stock_market_days"
  /\ pc = "returned"
  /\ n_next_days = 2
  /\ Len(ret) = 2
  /\ ordinal(ret[2]) - ordinal(start) >= 4

\* the dates us_market_holidays collects for year y; beyond the table, the
\* dates it has collected when the Good Friday lookup fails
market_holiday_dates(y) ==
  IF y \in DOMAIN good_fridays THEN us_market_holidays(py_int(y)).value
  ELSE valid_from_all(us_holidays(<<y>>)) \o new_years(<<y>>)

in_trading_hours(t) == Time(9, 30, 0) <= t.sec /\ t.sec <= Time(16, 0, 0)

\* C4 (as stated): on a date that is neither a Saturday/Sunday nor a market
\* holiday, b_is_stock_market_open returns True exactly when the time of
\* day is within 09:30:00..16:00:00, both included, and False otherwise.
C4_OpenExactlyInHours_AnyYear ==
  (/\ fn = "b_is_stock_market_open"
   /\ weekday(now.date) \notin {5, 6}
   /\ ~py_in(now.date, market_holiday_dates(now.date.year)))
    => pc = "returned" /\ ret = in_trading_hours(now)

\* C4 (amended): the same, for a date in a year of 2010..2030.
C4_OpenExactlyInHours ==
  (/\ fn = "b_is_stock_market_open"
   /\ in_table(now.date.year)
   /\ weekday(now.date) \notin {5, 6}
   /\ ~py_in(now.date, market_holiday_dates(now.date.year)))
    => pc = "returned" /\ ret = in_trading_hours(now)

C4_Witness ==
  /\ fn = "b_is_stock_market_open"
  /\ pc = "returned"
  /\ in_table(now.date.year)
  /\ weekday(now.date) \notin {5, 6}
  /\ ~py_in(now.date, market_holiday_dates(now.date.year))
  /\ now.sec = Time(16, 0, 0)
  /\ ret = TRUE

\* dt is a Saturday or Sunday, or a date of the public-holiday calendar
not_a_working_day(dt) == weekday(dt) \in {5, 6} \/ us_holidays_contains(dt)

\* C5: get_last_time_market_was_open(dt) returns the latest date not after
\* the date of dt that is neither a Saturday/Sunday nor a public holiday, with
\* the clock at 21:00:00; the date of dt itself when it is such a day.
C5_LastOpenDay ==
  (fn = "get_last_time_market_was_open" /\ pc = "returned") =>
    /\ ret.sec = Time(21, 0, 0)
    /\ ordinal(ret) <= ordinal(now)
    /\ ~not_a_working_day(ret.date)
    /\ \A n \in (ordinal(ret) + 1)..ordinal(now) : not_a_working_day(fromordinal(n))

C5_Witness ==
  /\ fn = "get_last_time_market_was_open"
  /\ pc = "returned"
  /\ weekday(now.date) = 6
  /\ ordinal(now) - ordinal(ret) >= 3
  /\ us_holidays_contains(date_plus_days(now.date, -2))

\* the years asked of us_market_holidays
requested_years == IF arg.type = "int" THEN <<arg.int>> ELSE arg.list

\* C6: the list us_market_holidays returns contains January 1 of a requested
\* year y exactly when that day is not a Saturday, and January 2 of y as
\* well when January 1 is a Sunday.
C6_NewYearsDay ==
  (fn = "us_market_holidays" /\ pc = "returned") =>
    \A i \in 1..Len(requested_years) :
      LET y == requested_years[i]
      IN /\ py_in(date(y, 1, 1), ret) <=> weekday(date(y, 1, 1)) # 5
         /\ weekday(date(y, 1, 1)) = 6 => py_in(date(y, 1, 2), ret)

C6_Witness ==
  /\ fn = "us_market_holidays"
  /\ pc = "returned"
  /\ arg = py_list(<<2022, 2023>>)
  /\ ~py_in(date(2022, 1, 1), ret)
  /\ py_in(date(2023, 1, 1), ret)
  /\ py_in(date(2023, 1, 2), ret)

\* C7: us_market_holidays asked for a year outside 2010..2030, alone or in a
\* list, raises KeyError and returns no list.
C7_MissingYearRaises ==
  (/\ fn = "us_market_holidays"
   /\ \E i \in 1..Len(requested_years) : ~in_table(requested_years[i]))
    => pc = "raised" /\ ret = "KeyError"

C7_Witness ==
  /\ fn = "us_market_holidays"
  /\ pc = "raised"
  /\ arg.type = "list"
  /\ Len(arg.list) = 2
  /\ in_table(arg.list[1])
  /\ ~in_table(arg.list[2])

\* C8: b_is_stock_market_open returns False on a Saturday or Sunday, at every
\* time of day and in every year, before any holiday lookup is made.
C8_ClosedOnWeekends ==
  (fn = "b_is_stock_market_open" /\ weekday(now.date) \in {5, 6})
    => pc = "returned" /\ ret = FALSE /\ lookups = <<>>

C8_Witness ==
  /\ fn = "b_is_stock_market_open"
  /\ pc = "returned"
  /\ weekday(now.date) = 5
  /\ ~in_table(now.date.year)
  /\ now.sec = Time(10, 0, 0)

\* C9: for a year y of 2010..2030, us_market_holidays(y) contains the Good
\* Friday the table records for y and the Good Friday of no other year.
C9_GoodFriday ==
  (fn = "us_market_holidays" /\ pc = "returned" /\ arg.type = "int") =>
    \A z \in DOMAIN good_fridays :
      py_in(strptime_date(good_fridays[z]), ret) <=> z = arg.int

C9_Witness ==
  /\ fn = "us_market_holidays"
  /\ pc = "returned"
  /\ arg = py_int(2021)
  /\ py_in(date(2021, 4, 2), ret)

\* C10: get_next_stock_market_days(start, 0) returns an empty list, the
\* timestamp not advanced and no holiday looked up, in any year.
C10_ZeroDays ==
  (fn = "get_next_stock_market_days" /\ n_next_days = 0) =>
    /\ pc \in {"loop", "returned"}
    /\ last_stock_day = start
    /\ lookups = <<>>
    /\ years = <<>>
    /\ pc = "returned" => ret = <<>>

C10_Witness ==
  /\ fn = "get_next_stock_market_days"
  /\ pc = "returned"
  /\ n_next_days = 0
  /\ ret = <<>>
  /\ ~in_table(start.date.year)

\* what the call that has ended gives: the value returned or the exception
result_is(r) ==
  /\ pc = "returned" => r.raised = "none" /\ ret = r.value
  /\ pc = "raised" => r.raised = ret

\* the result of the call that has ended is the one its arguments give,
\* whatever was called before
C11_SameResult ==
  pc \in {"returned", "raised"} =>
    /\ fn = "us_market_holidays" => result_is(us_market_holidays(arg))
    /\ fn = "get_last_time_market_was_open" =>
         result_is(returned(get_last_time_market_was_open(now)))
    /\ fn = "get_next_stock_market_days" =>
         result_is(get_next_stock_market_days(start, n_next_days))

\* the caller's timestamp is the same after every step of the call
C11_StartKept ==
  (fn = "get_next_stock_market_days" /\ pc = "loop") => start' = start

\* C11: the calendar functions keep no state between calls: in any sequence
\* of calls a call returns what its arguments alone give, and the timestamp
\* the caller passes to get_next_stock_market_days is left unchanged.
C11_NoStateKept == []C11_SameResult /\ [][C11_StartKept]_vars

C11_Witness ==
  /\ earlier
  /\ years # <<>>
  /\ fn = "get_next_stock_market_days"
  /\ pc = "returned"
  /\ Len(ret) = 2
  /\ last_stock_day # start

\* t is a trading day: neither a Saturday/Sunday nor a date
\* us_market_holidays lists for its year
eligible(t) == weekday(t.date) \notin {5, 6} /\ ~listed_holiday(t.date)

\* the candidates start + k*24h up to the last timestamp returned
candidates ==
  [k \in 1..(ordinal(ret[Len(ret)]) - ordinal(start)) |-> plus_hours(start, 24 * k)]

\* every eligible candidate not later than the last timestamp returned is in
\* the list returned
skips_no_trading_day ==
  \A k \in 1..Len(candidates) :
    eligible(candidates[k]) => py_in(candidates[k], ret)

\* C12: get_next_stock_market_days skips no trading day: every start + k*24h
\* not later than the last timestamp returned, whose date is neither a
\* Saturday/Sunday nor a date us_market_holidays lists for its year, is in
\* the list returned; the list is exactly the first n eligible candidates, in
\* chronological order.
C12_FirstEligibleDays ==
  (fn = "get_next_stock_market_days" /\ pc = "returned" /\ Len(ret) >= 1) =>
    /\ skips_no_trading_day
    /\ Len(ret) = n_next_days
    /\ ret = SelectSeq(candidates, eligible)

\* the years of the candidates the loop has come to
years_visited ==
  IF last_stock_day = start THEN {}
  ELSE plus_hours(start, 24).date.year .. last_stock_day.date.year

\* C13: in get_next_stock_market_days the holidays of a year are fetched
\* once, when the first candidate of that year is reached and whatever day of
\* the week it is; a candidate in a year outside 2010..2030 reached before n
\* sessions are collected ends the call with KeyError, no list returned.
C13_FetchOncePerYear ==
  fn = "get_next_stock_market_days" =>
    /\ \A i, j \in 1..Len(lookups) : lookups[i] = lookups[j] => i = j
    /\ \A i \in 1..(Len(lookups) - 1) : lookups[i] < lookups[i + 1]
    /\ {lookups[i] : i \in 1..Len(lookups)} = years_visited
    /\ pc = "raised" <=> \E y \in years_visited : ~in_table(y)
    /\ pc = "raised" =>
         /\ ret = "KeyError"
         /\ ~in_table(last_stock_day.date.year)
         /\ n_days < n_next_days

C13_Witness ==
  /\ fn = "get_next_stock_market_days"
  /\ pc = "raised"
  /\ ret = "KeyError"
  /\ weekday(last_stock_day.date) \in {5, 6}
  /\ lookups = <<last_stock_day.date.year>>

====
